---- MODULE Spec2Model ----
(***************************************************************************)
(* A model of imageclassification_nn_dropout.py: the model factories, the  *)
(* epoch runner train_one_epoch, the evaluator validate, the orchestrator  *)
(* train, the observers, and save/load of parameter snapshots.             *)
(*                                                                         *)
(* Tensors are abstract.  A parameter value is the pair (random            *)
(* initialisation, sequence of optimizer steps applied to it); a step is   *)
(* the gradient it used, and a gradient is the sequence of batches whose   *)
(* backward passes were accumulated into it.  Losses that the program only *)
(* stores (training losses, accuracies) are uninterpreted terms; losses    *)
(* the program compares (validation losses) are numbers.                   *)
(***************************************************************************)
EXTENDS Integers, Sequences, FiniteSets, TLC

\* ------------------------------------------------------------------ bounds
MaxEpochs == 2
MaxLoss == 1
MaxHidden == 2
MaxObsLen == 4

\* ------------------------------------------------------- program constants
InputWidth == 784
NumClasses == 10
DROPOUT == 8
HIDDEN_DIMS == <<64, 32>>

\* The two values of DEVICE (line 18).
Devices == {"cpu", "cuda"}
\* Snapshot destinations used by the script.
Filenames == {"early_stopping.pth", "dropout.pth"}
\* Numbers of batches a DataLoader yields: none (an empty dataset), one, several.
BatchCounts == {0, 1, 2}
\* Values of a per-batch validation cross-entropy.
Losses == 0..MaxLoss
\* Drop probabilities in [0, 1), in tenths.
Probs == {0, 5, 8}
\* Hidden widths the factory harness draws from.
Widths == {16, 32, 64}
\* Loss values the observer harness draws from (tenths).
ObsLosses == {7, 8, 9}

NoModel == [none |-> TRUE]
Absent == [present |-> FALSE, sd |-> <<>>]
File(sd) == [present |-> TRUE, sd |-> sd]
NoExc == [type |-> "none", fn |-> "none"]
\* A local that is not bound yet.
Unbound == <<>>

\* ------------------------------------------------------------ float helpers
RECURSIVE GCD(_, _)
GCD(a, b) == IF b = 0 THEN a ELSE GCD(b, a % b)

RECURSIVE Sum(_)
Sum(s) == IF s = <<>> THEN 0 ELSE Head(s) + Sum(Tail(s))

\* sum(losses) / len(losses) for numeric losses: the quotient as a fraction in
\* lowest terms (equal quotients are equal floats).  len = 0 raises.
Quot(n, d) == LET g == GCD(n, d) IN <<n \div g, d \div g>>
FloatLt(a, b) == a[1] * b[2] < b[1] * a[2]

\* Python's min(): keeps the first element unless a later one is strictly less.
RECURSIVE MinFrom(_, _)
MinFrom(m, s) ==
    IF s = <<>> THEN m
    ELSE MinFrom(IF FloatLt(Head(s), m) THEN Head(s) ELSE m, Tail(s))
Min(s) == MinFrom(Head(s), Tail(s))

\* ----------------------------------------------------------------- layers
Flatten == [type |-> "Flatten"]
ReLU == [type |-> "ReLU"]
Linear(i, o) == [type |-> "Linear", in |-> i, out |-> o]
Dropout(p) == [type |-> "Dropout", p |-> p]
Sequential(ls) == [type |-> "Sequential", layers |-> ls]

\* zip(hidden_dims[:-1], hidden_dims[1:])
Zip(h) == [i \in 1..(Len(h) - 1) |-> <<h[i], h[i + 1]>>]

\* Mutant: the output layer is sized by the first hidden width, not the last.
create_model_layers_first_width(hidden_dims) ==
    <<Flatten, Linear(InputWidth, hidden_dims[1]), ReLU>>
    \o [i \in 1..(Len(hidden_dims) - 1) |->
          Sequential(<<Linear(Zip(hidden_dims)[i][1], Zip(hidden_dims)[i][2]), ReLU>>)]
    \o <<Linear(hidden_dims[1], NumClasses)>>

\* create_model: hidden_dims[0] raises IndexError on an empty list.
create_model_layers(hidden_dims) ==
    <<Flatten, Linear(InputWidth, hidden_dims[1]), ReLU>>
    \o [i \in 1..(Len(hidden_dims) - 1) |->
          Sequential(<<Linear(Zip(hidden_dims)[i][1], Zip(hidden_dims)[i][2]), ReLU>>)]
    \o <<Linear(hidden_dims[Len(hidden_dims)], NumClasses)>>

create_model_with_dropout_layers(hidden_dims, p) ==
    <<Flatten, Linear(InputWidth, hidden_dims[1]), ReLU, Dropout(p)>>
    \o [i \in 1..(Len(hidden_dims) - 1) |->
          Sequential(<<Linear(Zip(hidden_dims)[i][1], Zip(hidden_dims)[i][2]), ReLU,
                       Dropout(p)>>)]
    \o <<Linear(hidden_dims[Len(hidden_dims)], NumClasses)>>

\* The chain in forward order: nested Sequential containers opened.
RECURSIVE Flat(_)
Flat(ls) ==
    IF ls = <<>> THEN <<>>
    ELSE IF Head(ls).type = "Sequential" THEN Head(ls).layers \o Flat(Tail(ls))
    ELSE <<Head(ls)>> \o Flat(Tail(ls))

\* state_dict(): parameter name -> shape.  A name is the module path (0-based
\* indices, as nn.Sequential numbers its children) and "weight" or "bias".
Key(path, name) == [path |-> path, name |-> name]
ParamsOf(path, l) ==
    IF l.type = "Linear"
    THEN {<<Key(path, "weight"), <<l.out, l.in>>>>, <<Key(path, "bias"), <<l.out>>>>}
    ELSE {}
ShapePairs(ls) ==
    UNION {IF ls[i].type = "Sequential"
           THEN UNION {ParamsOf(<<i - 1, j - 1>>, ls[i].layers[j]) :
                       j \in 1..Len(ls[i].layers)}
           ELSE ParamsOf(<<i - 1>>, ls[i]) : i \in 1..Len(ls)}
Shapes(ls) ==
    [k \in {pr[1] : pr \in ShapePairs(ls)} |->
        (CHOOSE pr \in ShapePairs(ls) : pr[1] = k)[2]]

\* ------------------------------------------------------------------ state
VARIABLES
    DEVICE,          \* "cuda" if torch.cuda.is_available() else "cpu"
    train_n,         \* number of batches train_loader yields
    val_n,           \* number of batches the evaluation loader yields
    models,          \* the script's variables model and pretrained_model
    files,           \* the file system: destination -> state dict, or Absent
    stdout,          \* what the observers printed
    pc,              \* position of the script / of the running call
    exc,             \* the exception that ended the script, or NoExc
    n_epochs,        \* train(): argument
    callback,        \* train(): argument
    epoch,           \* train(): loop variable
    train_losses,    \* train(): local list
    val_losses,      \* train(): local list
    train_loss,      \* train(): local
    val_loss,        \* train(): local
    val_acc,         \* train(): local
    vmodel,          \* validate(): which model it was called with
    losses,          \* train_one_epoch() / validate(): local list
    accuracies,      \* validate(): local list
    i,               \* train_one_epoch() / validate(): batches consumed so far
    model_file_path, \* load_model(): argument
    result,          \* value returned by train() / by the script's validate()
    calls,           \* the observer invocations so far, with their arguments
    evalOut,         \* cross-entropy of deterministic forward passes seen so far
    kind,            \* which factory built model
    hidden_dims,     \* factory: argument
    p                \* create_model_with_dropout: argument (tenths)

vars == <<DEVICE, train_n, val_n, models, files, stdout, pc, exc, n_epochs, callback,
          epoch, train_losses, val_losses, train_loss, val_loss, val_acc, vmodel,
          losses, accuracies, i, model_file_path, result, calls, evalOut, kind, hidden_dims, p>>

scriptVars == <<DEVICE, train_n, val_n>>
loadFrame == <<model_file_path>>
trainFrame == <<n_epochs, callback, epoch, train_losses, val_losses, train_loss,
                val_loss, val_acc>>
loopFrame == <<losses, accuracies, i>>
factoryArgs == <<kind, hidden_dims, p>>

Raise(type, fn) == [type |-> type, fn |-> fn]

\* ------------------------------------------------------------------ models
\* A freshly constructed module: training mode, random parameters, no gradients.
NewModel(layers, dev, id) ==
    [layers |-> layers, device |-> dev, training |-> TRUE,
     params |-> [k \in DOMAIN Shapes(layers) |-> [init |-> id, upd |-> <<>>]],
     grad |-> <<>>]

\* create_model ends with model.to(DEVICE).
create_model(hd, id) ==
    IF Len(hd) = 0 THEN [exc |-> Raise("IndexError", "create_model"), model |-> NoModel]
    ELSE [exc |-> NoExc, model |-> NewModel(create_model_layers(hd), DEVICE, id)]

\* create_model_with_dropout returns before its model.to(DEVICE) (line 274, a
\* comment after the return): the module stays where nn.Sequential built it.
create_model_with_dropout(hd, prob, id) ==
    IF Len(hd) = 0
    THEN [exc |-> Raise("IndexError", "create_model_with_dropout"), model |-> NoModel]
    ELSE [exc |-> NoExc,
          model |-> NewModel(create_model_with_dropout_layers(hd, prob), "cpu", id)]

Factories == {"create_model", "create_model_with_dropout"}
Factory(f, hd, prob, id) ==
    IF f = "create_model" THEN create_model(hd, id)
    ELSE create_model_with_dropout(hd, prob, id)

HasDropout(m) == \E j \in 1..Len(Flat(m.layers)) : Flat(m.layers)[j].type = "Dropout"
\* A forward pass draws a random mask iff a Dropout layer is in training mode.
Stochastic(m) == m.training /\ HasDropout(m)
\* model(batch) with the batch on DEVICE: the tensors must share a device.
ForwardFails(m) == m.device # DEVICE

\* optimizer.zero_grad(); loss.backward(); optimizer.step() (plain SGD)
zero_grad(m) == [m EXCEPT !.grad = <<>>]
backward(m, b) == [m EXCEPT !.grad = Append(@, b)]
step(m) == [m EXCEPT !.params = [k \in DOMAIN @ |-> [@[k] EXCEPT !.upd = Append(@, m.grad)]]]

\* model.state_dict(), torch.save, load_state_dict (strict)
state_dict(m) ==
    LET shapes == Shapes(m.layers)
    IN [k \in DOMAIN m.params |-> [shape |-> shapes[k], val |-> m.params[k]]]
Fits(m, sd) ==
    /\ DOMAIN sd = DOMAIN m.params
    /\ \A k \in DOMAIN sd : sd[k].shape = Shapes(m.layers)[k]
\* Mutant: only the weights are copied, the biases keep their values.
load_state_dict_weights(m, sd) ==
    [m EXCEPT !.params =
        [k \in DOMAIN @ |->
            IF k \in DOMAIN sd /\ sd[k].shape = Shapes(m.layers)[k] /\ k.name = "weight"
            THEN sd[k].val ELSE @[k]]]

\* Parameters whose name and shape match are copied even when the call then raises.
load_state_dict(m, sd) ==
    [m EXCEPT !.params =
        [k \in DOMAIN @ |->
            IF k \in DOMAIN sd /\ sd[k].shape = Shapes(m.layers)[k]
            THEN sd[k].val ELSE @[k]]]

\* Uninterpreted results of a forward pass that the program only stores.
CrossEntropy(m, b) == [fn |-> "cross_entropy", params |-> m.params, batch |-> b,
                       stochastic |-> Stochastic(m)]
Accuracy(m, b) == [fn |-> "accuracy", params |-> m.params, batch |-> b,
                   stochastic |-> Stochastic(m)]
\* sum(xs) / len(xs) over uninterpreted terms
Mean(xs) == [fn |-> "mean", of |-> xs]

\* A state dict left at a destination by an earlier execution of the script
\* (early_stopping.pth: while HIDDEN_DIMS was [64, 16]).
StaleLayers(f) ==
    IF f = "dropout.pth" THEN create_model_with_dropout_layers(HIDDEN_DIMS, DROPOUT)
    ELSE create_model_layers(<<64, 16>>)
Stale(f) == File(state_dict(NewModel(StaleLayers(f), "cpu", "earlier")))

\* --------------------------------------------------------------- observers
print_loss_every_n_epochs(model, ep, tl, vl, acc, n) ==
    /\ stdout' = IF ep % n = 0
                 THEN Append(stdout, [fn |-> "print_loss_every_n_epochs", epoch |-> ep,
                                      train |-> tl[Len(tl)], val |-> vl[Len(vl)],
                                      acc |-> acc])
                 ELSE stdout
    /\ UNCHANGED files

\* Mutant: only a strict improvement on the earlier epochs counts.
save_model_if_strictly_improved(model, ep, tl, vl, acc, filename) ==
    IF Len(vl) = 1 \/ FloatLt(vl[Len(vl)], Min(SubSeq(vl, 1, Len(vl) - 1)))
    THEN /\ stdout' = Append(stdout, [fn |-> "save_model_if_improved", epoch |-> ep,
                                      val |-> vl[Len(vl)]])
         /\ files' = [files EXCEPT ![filename] = File(state_dict(model))]
    ELSE UNCHANGED <<stdout, files>>

save_model_if_improved(model, ep, tl, vl, acc, filename) ==
    IF vl[Len(vl)] = Min(vl)
    THEN /\ stdout' = Append(stdout, [fn |-> "save_model_if_improved", epoch |-> ep,
                                      val |-> vl[Len(vl)]])
         /\ files' = [files EXCEPT ![filename] = File(state_dict(model))]
    ELSE UNCHANGED <<stdout, files>>

Callbacks ==
    {[fn |-> "print_loss_every_n_epochs", n |-> 1]}
    \cup {[fn |-> "save_model_if_improved", filename |-> f] : f \in Filenames}

\* Mutant: the observer writes to early_stopping.pth whatever destination it was given.
InvokeFixedDestination(cb, model, ep, tl, vl, acc) ==
    IF cb.fn = "print_loss_every_n_epochs"
    THEN print_loss_every_n_epochs(model, ep, tl, vl, acc, cb.n)
    ELSE save_model_if_improved(model, ep, tl, vl, acc, "early_stopping.pth")

\* callback(...) with the partial application the script made.
Invoke(cb, model, ep, tl, vl, acc) ==
    IF cb.fn = "print_loss_every_n_epochs"
    THEN print_loss_every_n_epochs(model, ep, tl, vl, acc, cb.n)
    ELSE save_model_if_improved(model, ep, tl, vl, acc, cb.filename)

\* ------------------------------------------------------------ the script
\* Lines 18, 83-87: DEVICE and the loaders are fixed when the module is run; the
\* destinations may hold what an earlier execution left there.
\* The script has not run yet: nothing is built, bound or printed.
InitExcept(pc0) ==
    /\ models = [v \in {"model", "pretrained_model"} |-> NoModel]
    /\ stdout = <<>>
    /\ pc = pc0
    /\ exc = NoExc
    /\ epoch = 0
    /\ train_losses = <<>>
    /\ val_losses = <<>>
    /\ train_loss = Unbound
    /\ val_loss = Unbound
    /\ val_acc = Unbound
    /\ vmodel = "model"
    /\ losses = <<>>
    /\ accuracies = <<>>
    /\ i = 0
    /\ model_file_path = "early_stopping.pth"
    /\ result = Unbound
    /\ calls = <<>>
    /\ evalOut = {}

FilesLeft ==
    {fs \in [Filenames -> {Absent} \cup {Stale(f) : f \in Filenames}] :
        \A f \in Filenames : fs[f] \in {Absent, Stale(f)}}

Init ==
    /\ InitExcept("script_create")
    /\ DEVICE \in Devices
    /\ train_n \in BatchCounts
    /\ val_n \in BatchCounts
    /\ files \in FilesLeft
    /\ n_epochs = 0
    /\ callback = [fn |-> "none"]
    /\ kind = "create_model"
    /\ hidden_dims = HIDDEN_DIMS
    /\ p = DROPOUT

\* An uncaught exception ends the script.
Crash(e) == pc' = "crashed" /\ exc' = e

\* model = create_model(HIDDEN_DIMS) / create_model_with_dropout(HIDDEN_DIMS, p=DROPOUT)
CreateModel(f) ==
    /\ pc = "script_create"
    /\ kind' = f
    /\ models' = [models EXCEPT !["model"] = Factory(f, HIDDEN_DIMS, DROPOUT, "model").model]
    /\ pc' = "script_train"
    /\ UNCHANGED <<scriptVars, files, stdout, exc, trainFrame, vmodel, loopFrame, result,
                   calls, evalOut, hidden_dims, p, loadFrame>>

\* optimizer = SGD(model.parameters(), lr=LR); train(model, ..., n_epochs, callback)
TrainCall(n, cb) ==
    /\ pc = "script_train"
    /\ n_epochs' = n
    /\ callback' = cb
    /\ train_losses' = <<>>
    /\ val_losses' = <<>>
    /\ epoch' = 0
    /\ pc' = "train_loop"
    /\ UNCHANGED <<scriptVars, models, files, stdout, exc, train_loss, val_loss, val_acc,
                   vmodel, loopFrame, result, calls, evalOut, factoryArgs, loadFrame>>

\* for epoch in range(n_epochs): train_one_epoch(model, train_loader, optimizer) is entered
EpochBegin ==
    /\ pc = "train_loop"
    /\ epoch < n_epochs
    /\ losses' = <<>>
    /\ i' = 0
    /\ pc' = "toe_loop"
    /\ UNCHANGED <<scriptVars, models, files, stdout, exc, trainFrame, vmodel, accuracies,
                   result, calls, evalOut, factoryArgs, loadFrame>>

\* One iteration of train_one_epoch's loop (lines 123-134).
TrainBatch ==
    /\ pc = "toe_loop"
    /\ i < train_n
    /\ LET cleared == zero_grad(models["model"])
           stepped == step(backward(cleared, i + 1))
       IN IF ForwardFails(cleared)
          THEN /\ models' = [models EXCEPT !["model"] = cleared]
               /\ Crash(Raise("RuntimeError", "train_one_epoch"))
               /\ UNCHANGED <<losses, i>>
          ELSE /\ models' = [models EXCEPT !["model"] = stepped]
               /\ losses' = Append(losses, CrossEntropy(cleared, i + 1))
               /\ i' = i + 1
               /\ UNCHANGED <<pc, exc>>
    /\ UNCHANGED <<scriptVars, files, stdout, trainFrame, vmodel, accuracies, result, calls,
                   evalOut, factoryArgs, loadFrame>>

\* Mutant: train() appends train_loss before it calls validate.
TrainOneEpochReturnAppends ==
    /\ pc = "toe_loop"
    /\ i >= train_n
    /\ IF Len(losses) = 0
       THEN /\ Crash(Raise("ZeroDivisionError", "train_one_epoch"))
            /\ UNCHANGED <<train_loss, vmodel, train_losses>>
       ELSE /\ train_loss' = Mean(losses)
            /\ train_losses' = Append(train_losses, Mean(losses))
            /\ vmodel' = "model"
            /\ pc' = "val_begin"
            /\ UNCHANGED exc
    /\ UNCHANGED <<scriptVars, models, files, stdout, n_epochs, callback, epoch,
                   val_losses, val_loss, val_acc, loopFrame, result, calls,
                   evalOut, factoryArgs, loadFrame>>

\* train_one_epoch's loop is over: avg_loss = sum(losses) / len(losses); return.
\* train() binds train_loss and calls validate(model, val_loader).
TrainOneEpochReturn ==
    /\ pc = "toe_loop"
    /\ i >= train_n
    /\ IF Len(losses) = 0
       THEN /\ Crash(Raise("ZeroDivisionError", "train_one_epoch"))
            /\ UNCHANGED <<train_loss, vmodel>>
       ELSE /\ train_loss' = Mean(losses)
            /\ vmodel' = "model"
            /\ pc' = "val_begin"
            /\ UNCHANGED exc
    /\ UNCHANGED <<scriptVars, models, files, stdout, n_epochs, callback, epoch,
                   train_losses, val_losses, val_loss, val_acc, loopFrame, result, calls,
                   evalOut, factoryArgs, loadFrame>>

\* validate() is entered: losses = [], accuracies = [], model.eval()
ValidateBegin ==
    /\ pc = "val_begin"
    /\ losses' = <<>>
    /\ accuracies' = <<>>
    /\ i' = 0
    /\ models' = [models EXCEPT ![vmodel].training = FALSE]
    /\ pc' = "val_loop"
    /\ UNCHANGED <<scriptVars, files, stdout, exc, trainFrame, vmodel, result, calls,
                   evalOut, factoryArgs, loadFrame>>

\* The cross-entropy of a forward pass on batch b of the fixed-order loader: a
\* function of the parameters and the batch unless a dropout mask is drawn.
Seen(m, b, l) == [params |-> m.params, batch |-> b, loss |-> l]
MayYield(m, b, l) ==
    Stochastic(m) \/ \A l2 \in Losses : Seen(m, b, l2) \in evalOut => l2 = l
Remember(m, b, l) ==
    IF Stochastic(m) THEN evalOut ELSE evalOut \cup {Seen(m, b, l)}

\* One iteration of validate's loop (lines 151-161), under torch.no_grad().
ValidateBatch ==
    /\ pc = "val_loop"
    /\ i < val_n
    /\ LET m == models[vmodel]
       IN IF ForwardFails(m)
          THEN /\ Crash(Raise("RuntimeError", "validate"))
               /\ UNCHANGED <<loopFrame, evalOut>>
          ELSE /\ \E l \in Losses :
                    /\ MayYield(m, i + 1, l)
                    /\ losses' = Append(losses, l)
                    /\ evalOut' = Remember(m, i + 1, l)
               /\ accuracies' = Append(accuracies, Accuracy(m, i + 1))
               /\ i' = i + 1
               /\ UNCHANGED <<pc, exc>>
    /\ UNCHANGED <<scriptVars, models, files, stdout, trainFrame, vmodel, result, calls,
                   factoryArgs, loadFrame>>

\* validate's loop is over: model.train(), the two averages, return.  The caller
\* is train() (line 184) or the script (lines 250, 296).
ValidateReturn ==
    /\ pc = "val_loop"
    /\ i >= val_n
    /\ models' = [models EXCEPT ![vmodel].training = TRUE]
    /\ IF Len(losses) = 0
       THEN /\ Crash(Raise("ZeroDivisionError", "validate"))
            /\ UNCHANGED <<val_loss, val_acc, result>>
       ELSE IF vmodel = "model"
       THEN /\ val_loss' = Quot(Sum(losses), Len(losses))
            /\ val_acc' = Mean(accuracies)
            /\ pc' = "epoch_end"
            /\ UNCHANGED <<exc, result>>
       ELSE /\ result' = <<Quot(Sum(losses), Len(losses)), Mean(accuracies)>>
            /\ pc' = "done"
            /\ UNCHANGED <<exc, val_loss, val_acc>>
    /\ UNCHANGED <<scriptVars, files, stdout, n_epochs, callback, epoch, train_losses,
                   val_losses, train_loss, vmodel, loopFrame, calls, evalOut, factoryArgs, loadFrame>>

\* Mutant: the observer is handed epoch + 1.
EpochEndOneBased ==
    /\ pc = "epoch_end"
    /\ train_losses' = Append(train_losses, train_loss)
    /\ val_losses' = Append(val_losses, val_loss)
    /\ Invoke(callback, models["model"], epoch + 1, train_losses', val_losses', val_acc)
    /\ calls' = Append(calls, [epoch |-> epoch + 1, train_losses |-> train_losses',
                               val_losses |-> val_losses', val_acc |-> val_acc,
                               params |-> models["model"].params])
    /\ epoch' = epoch + 1
    /\ pc' = "train_loop"
    /\ UNCHANGED <<scriptVars, models, exc, n_epochs, callback, train_loss, val_loss,
                   val_acc, vmodel, loopFrame, result, evalOut, factoryArgs, loadFrame>>

\* Lines 186-189: the two appends and callback(model, epoch, train_losses,
\* val_losses, val_acc); the loop variable advances.
EpochEnd ==
    /\ pc = "epoch_end"
    /\ train_losses' = Append(train_losses, train_loss)
    /\ val_losses' = Append(val_losses, val_loss)
    /\ Invoke(callback, models["model"], epoch, train_losses', val_losses', val_acc)
    /\ calls' = Append(calls, [epoch |-> epoch, train_losses |-> train_losses',
                               val_losses |-> val_losses', val_acc |-> val_acc,
                               params |-> models["model"].params])
    /\ epoch' = epoch + 1
    /\ pc' = "train_loop"
    /\ UNCHANGED <<scriptVars, models, exc, n_epochs, callback, train_loss, val_loss,
                   val_acc, vmodel, loopFrame, result, evalOut, factoryArgs, loadFrame>>

\* range(n_epochs) is exhausted: return train_losses, val_losses
TrainReturn ==
    /\ pc = "train_loop"
    /\ epoch >= n_epochs
    /\ result' = <<train_losses, val_losses>>
    /\ pc' = "script_pretrained"
    /\ UNCHANGED <<scriptVars, models, files, stdout, exc, trainFrame, vmodel, loopFrame,
                   calls, evalOut, factoryArgs, loadFrame>>

\* pretrained_model = create_model(HIDDEN_DIMS) after the runs of a create_model
\* model (line 248), create_model_with_dropout(HIDDEN_DIMS, DROPOUT) after the
\* run of a dropout model (line 294).
CreatePretrained ==
    /\ pc = "script_pretrained"
    /\ models' = [models EXCEPT !["pretrained_model"] =
                      Factory(kind, HIDDEN_DIMS, DROPOUT, "pretrained_model").model]
    /\ pc' = "script_load"
    /\ UNCHANGED <<scriptVars, files, stdout, exc, trainFrame, vmodel, loopFrame, result,
                   calls, evalOut, factoryArgs, loadFrame>>

\* load_model(pretrained_model, path): torch.load, then load_state_dict; the
\* script goes on to validate(pretrained_model, test_loader).
load_model(path) ==
    /\ pc = "script_load"
    /\ model_file_path' = path
    /\ IF ~files[path].present
       THEN /\ Crash(Raise("FileNotFoundError", "load_model"))
            /\ UNCHANGED <<models, vmodel>>
       ELSE /\ models' = [models EXCEPT !["pretrained_model"] =
                              load_state_dict(@, files[path].sd)]
            /\ IF Fits(models["pretrained_model"], files[path].sd)
               THEN pc' = "val_begin" /\ vmodel' = "pretrained_model" /\ UNCHANGED exc
               ELSE Crash(Raise("RuntimeError", "load_model")) /\ UNCHANGED vmodel
    /\ UNCHANGED <<scriptVars, files, stdout, trainFrame, loopFrame, result, calls, evalOut,
                   factoryArgs>>

Next ==
    \/ \E f \in Factories : CreateModel(f)
    \/ \E n \in 0..MaxEpochs, cb \in Callbacks : TrainCall(n, cb)
    \/ EpochBegin
    \/ TrainBatch
    \/ TrainOneEpochReturn
    \/ ValidateBegin
    \/ ValidateBatch
    \/ ValidateReturn
    \/ EpochEnd
    \/ TrainReturn
    \/ CreatePretrained
    \/ \E path \in Filenames : load_model(path)

Spec == Init /\ [][Next]_vars

\* ------------------------------------------------- the factories, alone
HiddenDims == UNION {[1..n -> Widths] : n \in 0..MaxHidden}

InitFactory ==
    /\ InitExcept("script_create")
    /\ DEVICE \in Devices
    /\ train_n = 1
    /\ val_n = 1
    /\ files = [f \in Filenames |-> Absent]
    /\ n_epochs = 0
    /\ callback = [fn |-> "none"]
    /\ kind \in Factories
    /\ hidden_dims \in HiddenDims
    /\ p \in Probs

\* model = create_model(hidden_dims) / create_model_with_dropout(hidden_dims, p)
FactoryCall ==
    /\ pc = "script_create"
    /\ LET made == Factory(kind, hidden_dims, p, "model")
       IN /\ models' = [models EXCEPT !["model"] = made.model]
          /\ exc' = made.exc
          /\ pc' = IF made.exc = NoExc THEN "script_train" ELSE "crashed"
    /\ UNCHANGED <<scriptVars, files, stdout, trainFrame, vmodel, loopFrame, result, calls,
                   evalOut, factoryArgs, loadFrame>>

NextFactory == FactoryCall

SpecFactory == InitFactory /\ [][NextFactory]_vars

\* --------------------------------------- the observers, on any history
\* train()'s loop with lines 183-184 replaced by arbitrary results: the model has
\* taken an optimizer step and the evaluator reports the loss v / 10.
InitObs ==
    /\ InitExcept("script_create")
    /\ DEVICE = "cpu"
    /\ train_n = 1
    /\ val_n = 1
    /\ files \in FilesLeft
    /\ n_epochs = 0
    /\ callback = [fn |-> "none"]
    /\ kind = "create_model"
    /\ hidden_dims = HIDDEN_DIMS
    /\ p = DROPOUT

ObsEpoch(v) ==
    /\ pc = "train_loop"
    /\ epoch < n_epochs
    /\ models' = [models EXCEPT !["model"] = step(backward(zero_grad(@), 1))]
    /\ train_loss' = Mean(<<CrossEntropy(models["model"], 1)>>)
    /\ val_loss' = Quot(v, 10)
    /\ val_acc' = Mean(<<Accuracy(models'["model"], 1)>>)
    /\ pc' = "epoch_end"
    /\ UNCHANGED <<scriptVars, files, stdout, exc, n_epochs, callback, epoch, train_losses,
                   val_losses, vmodel, loopFrame, result, calls, evalOut, factoryArgs,
                   loadFrame>>

NextObs ==
    \/ CreateModel("create_model")
    \/ \E cb \in Callbacks : TrainCall(MaxObsLen, cb)
    \/ \E v \in ObsLosses : ObsEpoch(v)
    \/ EpochEnd
    \/ TrainReturn

SpecObs == InitObs /\ [][NextObs]_vars

\* ================================================================ claims
\* Vocabulary of the claims, stated without the program's own min() and ==.
Prefix(h, n) == SubSeq(h, 1, n)
LastIsLeast(h) == \A j \in 1..Len(h) : ~FloatLt(h[j], h[Len(h)])
\* The latest position holding the least value of h.
BestEpoch(h) ==
    CHOOSE k \in 1..Len(h) :
        /\ \A j \in 1..Len(h) : ~FloatLt(h[j], h[k])
        /\ \A j \in (k + 1)..Len(h) : FloatLt(h[k], h[j])
SaveObserver == callback.fn = "save_model_if_improved"
SavedAt(e) ==
    \E j \in 1..Len(stdout) :
        stdout[j].fn = "save_model_if_improved" /\ stdout[j].epoch = e
SavedEpochs == {e \in 0..(Len(val_losses) - 1) : SavedAt(e)}
LastSaved == CHOOSE e \in SavedEpochs : \A e2 \in SavedEpochs : e2 <= e
\* The state dict of model holding the parameters the observer saw at call k.
SnapshotOfCall(k) == File(state_dict([models["model"] EXCEPT !.params = calls[k].params]))

\* C1: in every state of a run observed by save_model_if_improved, the epochs at
\* which a snapshot was written are exactly those whose validation loss is the
\* least of the history up to and including it (ties included); the configured
\* destination then holds the snapshot written at the latest of them, and the
\* other destination holds what it held before the run.
C1_WrittenIffLastIsLeast ==
    SaveObserver =>
        /\ \A e \in 0..(Len(val_losses) - 1) :
               SavedAt(e) <=> LastIsLeast(Prefix(val_losses, e + 1))
        /\ SavedEpochs # {} => files[callback.filename] = SnapshotOfCall(LastSaved + 1)
        /\ \A f \in Filenames \ {callback.filename} : files[f] \in {Absent, Stale(f)}

\* C1 witness: the history [0.9, 0.7, 0.8, 0.7] was observed; snapshots were
\* written at epochs 0, 1 and 3 and not at epoch 2.
C1_Witness ==
    /\ SaveObserver
    /\ val_losses = <<Quot(9, 10), Quot(7, 10), Quot(8, 10), Quot(7, 10)>>
    /\ Len(calls) = 4
    /\ SavedEpochs = {0, 1, 3}
    /\ files[callback.filename] = SnapshotOfCall(4)

\* The affine transforms of a layer chain, in forward order.
IsLinear(l) == l.type = "Linear"
Affine(ls) == SelectSeq(Flat(ls), IsLinear)
FactoryReturned == pc = "script_train"
FactoryEnded == pc # "script_create"

\* C7: a factory call that returns has built a chain whose first affine transform
\* accepts 784, whose affine widths chain, whose last layer is an affine
\* transform to 10, and (create_model_with_dropout) where a Dropout(p) follows
\* every activation; a call with an empty hidden_dims raises and builds nothing.
C7_FactoryChain ==
    /\ FactoryReturned =>
        LET ch == Flat(models["model"].layers)
            a == Affine(models["model"].layers)
        IN /\ Len(hidden_dims) > 0
           /\ a[1].in = 784
           /\ \A j \in 1..(Len(a) - 1) : a[j].out = a[j + 1].in
           /\ ch[Len(ch)] = a[Len(a)]
           /\ a[Len(a)].out = 10
           /\ kind = "create_model_with_dropout" =>
                \A j \in 1..Len(ch) :
                    ch[j].type = "ReLU" =>
                        j < Len(ch) /\ ch[j + 1] = [type |-> "Dropout", p |-> p]
    /\ (FactoryEnded /\ Len(hidden_dims) = 0) =>
        pc = "crashed" /\ exc.type = "IndexError" /\ models["model"] = NoModel

\* C7 witness: create_model_with_dropout returned a model for two different widths.
C7_Witness ==
    /\ FactoryReturned
    /\ kind = "create_model_with_dropout"
    /\ Len(hidden_dims) = 2
    /\ hidden_dims[1] # hidden_dims[2]

\* ------------------------------------------------- where the script is
TrainCalled == pc \notin {"script_create", "script_train"}
ValidateRunsOn(v) == pc \in {"val_begin", "val_loop"} /\ vmodel = v
TrainRunning == pc \in {"train_loop", "toe_loop", "epoch_end"} \/ ValidateRunsOn("model")
RaisedIn(fn) == pc = "crashed" /\ exc.fn = fn
TrainRaised == RaisedIn("train_one_epoch") \/ (RaisedIn("validate") /\ vmodel = "model")
TrainReturned == TrainCalled /\ ~TrainRunning /\ ~TrainRaised
\* train_one_epoch has just returned to train().
EpochRunnerReturned == pc = "val_begin" /\ vmodel = "model"
ValidateExited ==
    pc \in {"epoch_end", "done"} \/ RaisedIn("validate")

\* The parameters of model after k complete epochs: one step per batch, in
\* order, each with the gradient of that batch alone.
ParamsAfter(k) ==
    [init |-> "model", upd |-> [j \in 1..(k * train_n) |-> <<((j - 1) % train_n) + 1>>]]
ModelParamsAre(val) ==
    \A key \in DOMAIN models["model"].params : models["model"].params[key] = val

\* C2 (as claimed, on the non-empty sequences section 4.2 of the specification
\* requires): a call of train that is over has returned, after invoking
\* the observer exactly n_epochs times with the epoch indices 0 .. n_epochs-1 in
\* order, and the two histories it returns have length n_epochs.
C2_TrainRunsAllEpochs ==
    (TrainCalled /\ ~TrainRunning /\ train_n >= 1 /\ val_n >= 1) =>
        /\ TrainReturned
        /\ Len(calls) = n_epochs
        /\ \A k \in 1..Len(calls) : calls[k].epoch = k - 1
        /\ Len(train_losses) = n_epochs
        /\ Len(val_losses) = n_epochs

\* C3 (as claimed): on a non-empty training sequence train_one_epoch does not
\* raise, and when it returns it has visited every batch once and in order,
\* taken one optimizer step per batch with the gradient of that batch alone, and
\* returns the mean of the per-batch losses.
C3_EpochRunnerVisitsAll ==
    train_n >= 1 =>
        /\ ~RaisedIn("train_one_epoch")
        /\ EpochRunnerReturned =>
            /\ Len(losses) = train_n
            /\ \A j \in 1..Len(losses) : losses[j].batch = j
            /\ \A key \in DOMAIN models["model"].params :
                   LET upd == models["model"].params[key].upd
                   IN /\ Len(upd) >= train_n
                      /\ \A j \in 1..train_n : upd[Len(upd) - train_n + j] = <<j>>
            /\ train_loss = [fn |-> "mean", of |-> losses]

\* C3, the part that holds: whenever train_one_epoch returns, the above is so.
C3_WhenReturned ==
    EpochRunnerReturned =>
        /\ Len(losses) = train_n
        /\ \A j \in 1..Len(losses) : losses[j].batch = j
        /\ ModelParamsAre(ParamsAfter(epoch + 1))
        /\ train_loss = [fn |-> "mean", of |-> losses]

\* C4 (as claimed): no forward pass of validate draws a dropout mask; on every
\* exit of validate, by return or by exception, the model is back in training
\* mode; and its parameters are those every forward pass of the call used.
C4_ValidateRestoresMode ==
    /\ pc = "val_loop" =>
        /\ ~Stochastic(models[vmodel])
        /\ \A j \in 1..Len(accuracies) : ~accuracies[j].stochastic
    /\ ValidateExited =>
        /\ models[vmodel].training
        /\ \A j \in 1..Len(accuracies) : accuracies[j].params = models[vmodel].params

\* C10 (as claimed): whenever train_one_epoch or validate is about to apply the
\* model to a batch (which they move to DEVICE), the model is on DEVICE.
C10_ModelOnDevice ==
    /\ (pc = "toe_loop" /\ i < train_n) => models["model"].device = DEVICE
    /\ (pc = "val_loop" /\ i < val_n) => models[vmodel].device = DEVICE

\* The training-loss term of batch j of epoch number k (from 1), and the epoch's mean.
TrainTerm(k, j) ==
    [fn |-> "cross_entropy",
     params |-> LET before == [init |-> "model",
                               upd |-> Prefix(ParamsAfter(k).upd, (k - 1) * train_n + j - 1)]
                IN [key \in DOMAIN models["model"].params |-> before],
     batch |-> j,
     stochastic |-> (kind = "create_model_with_dropout")]
TrainLossOfEpoch(k) == [fn |-> "mean", of |-> [j \in 1..train_n |-> TrainTerm(k, j)]]
\* l is the mean, over the val_n batches, of the losses the evaluator computed
\* with the parameters ps.
IsValLossAt(l, ps) ==
    \E f \in [1..val_n -> Losses] :
        /\ \A b \in 1..val_n : [params |-> ps, batch |-> b, loss |-> f[b]] \in evalOut
        /\ l = Quot(Sum(f), val_n)

\* C5: at the observer invocation for epoch e (the k-th, k = e+1) the model holds
\* the updates of epochs 0..e, the evaluator has run all its batches on exactly
\* those parameters, both histories have length e+1 and end with epoch e's
\* training and validation loss, and they extend the histories of invocation e-1.
C5_ObserverSeesCompletedEpoch ==
    /\ Len(train_losses) = Len(calls)
    /\ Len(val_losses) = Len(calls)
    /\ \A k \in 1..Len(calls) :
        LET c == calls[k]
            after == ParamsAfter(k)
        IN /\ c.epoch = k - 1
           /\ Len(c.train_losses) = k
           /\ Len(c.val_losses) = k
           /\ \A key \in DOMAIN c.params : c.params[key] = after
           /\ Len(c.val_acc.of) = val_n
           /\ \A j \in 1..val_n :
                  c.val_acc.of[j] = [fn |-> "accuracy", params |-> c.params,
                                     batch |-> j, stochastic |-> FALSE]
           /\ c.train_losses[k] = TrainLossOfEpoch(k)
           /\ IsValLossAt(c.val_losses[k], c.params)
           /\ k > 1 => /\ Prefix(c.train_losses, k - 1) = calls[k - 1].train_losses
                       /\ Prefix(c.val_losses, k - 1) = calls[k - 1].val_losses
           /\ k = Len(calls) => c.train_losses = train_losses /\ c.val_losses = val_losses

\* C5 witness: the observer has been invoked for epochs 0 and 1 of a run over two
\* training and two validation batches.
C5_Witness ==
    /\ Len(calls) = 2
    /\ train_n = 2
    /\ val_n = 2
    /\ calls[2].val_losses[1] # calls[2].val_losses[2]

LoadReturned == ValidateRunsOn("pretrained_model") \/ pc = "done"
                \/ (RaisedIn("validate") /\ vmodel = "pretrained_model")
LoadEnded == LoadReturned \/ RaisedIn("load_model")
\* The destination was written by this run's observer.
WrittenThisRun(path) == SaveObserver /\ callback.filename = path /\ SavedEpochs # {}
\* The architecture of the model whose state dict the destination holds.
SnapshotLayers(path) ==
    IF WrittenThisRun(path) THEN models["model"].layers ELSE StaleLayers(path)

\* C6: when load_model returns, every parameter of pretrained_model has the value
\* the destination holds for it; if that snapshot was saved by this run, validate
\* on the fixed sequence then returns for pretrained_model the (loss, accuracy)
\* it returned for model in the epoch that saved it; and load_model raises
\* exactly when the destination is absent or holds a different architecture.
C6_RoundTrip ==
    /\ LoadReturned =>
        LET sd == files[model_file_path].sd
            got == models["pretrained_model"].params
        IN /\ files[model_file_path].present
           /\ DOMAIN got = DOMAIN sd
           /\ \A key \in DOMAIN got : got[key] = sd[key].val
    /\ (pc = "done" /\ WrittenThisRun(model_file_path)) =>
        result = <<val_losses[LastSaved + 1], calls[LastSaved + 1].val_acc>>
    /\ LoadEnded =>
        (RaisedIn("load_model") <=>
            \/ ~files[model_file_path].present
            \/ SnapshotLayers(model_file_path) # models["pretrained_model"].layers)

\* C6 witness: the snapshot was saved at epoch 0 of a two-epoch run, reloaded, and
\* pretrained_model validated on two batches; model itself has moved on.
C6_Witness ==
    /\ pc = "done"
    /\ WrittenThisRun(model_file_path)
    /\ Len(calls) = 2
    /\ LastSaved = 0
    /\ val_n = 2
    /\ models["pretrained_model"].params # models["model"].params

\* C8 (as claimed): when an epoch of train raises, neither history has an entry
\* for it, the observer has been invoked for the earlier epochs only, and the
\* model's parameters are those of the end of the previous epoch.
C8_FailedEpochLeavesNothing ==
    TrainRaised =>
        /\ Len(train_losses) = epoch
        /\ Len(val_losses) = epoch
        /\ Len(calls) = epoch
        /\ ModelParamsAre(ParamsAfter(epoch))

\* C8 (amended): when an epoch of train raises, train does not return, neither
\* history has an entry for the epoch and the observer has been invoked for the
\* earlier epochs only; the model keeps the optimizer steps the epoch took before
\* the failure: none if train_one_epoch raised on its first batch or on an empty
\* sequence, all of the epoch's if validate raised.
C8_FailedEpochKeepsItsSteps ==
    TrainRaised =>
        /\ result = Unbound
        /\ Len(train_losses) = epoch
        /\ Len(val_losses) = epoch
        /\ Len(calls) = epoch
        /\ RaisedIn("train_one_epoch") => ModelParamsAre(ParamsAfter(epoch))
        /\ RaisedIn("validate") => ModelParamsAre(ParamsAfter(epoch + 1))
        /\ models["model"].training

\* C8 witness: validate raised ZeroDivisionError on an empty validation sequence
\* after train_one_epoch had stepped through two batches.
C8_Witness ==
    /\ TrainRaised
    /\ exc = [type |-> "ZeroDivisionError", fn |-> "validate"]
    /\ train_n = 2
    /\ ModelParamsAre(ParamsAfter(1))
    /\ train_losses = <<>>

====
